---- MODULE Spec2Model ----
(***************************************************************************)
(* pcr-hash-table-rename: the table-matching cascade, the column-mapping   *)
(* inferer and the row copier of main.go, as a state machine.              *)
(*                                                                         *)
(* A string is a sequence of byte codes, so that length and the byte-wise  *)
(* order of sort.Strings are computed and not assumed.  A database cell is *)
(* a native value (integer, text or NULL); matching sees only its          *)
(* fmt.Sprintf("%v") form, the row copier moves the native value.          *)
(* Sequences are 1-based; column indices stored in a mapping keep the      *)
(* source's 0-based values, -1 meaning "not mapped yet".                   *)
(***************************************************************************)
EXTENDS Integers, Sequences, FiniteSets, Bags, TLC

\* ------------------------------------------------------------------ bounds
MaxCols == 3      \* columns of a table of the derived-pair inputs
MaxCells == 6     \* cells (rows times columns) of such a table
NumRef == 2       \* reference tables of a pooled catalog
NumTgt == 2       \* target tables of a pooled catalog

\* ------------------------------------------------- constants of the program
SortedRowN == 3        \* n := 3 in trySortedRowMatch
CatalogK == 10         \* getFirstNRows(db, name, 10) in loadTables
MultisetN == 10        \* buildMultiset(rows, 10) in tryMultisetMatch
FingerprintOrigN == 50 \* getFirstNRows(origDB, orig.Name, 50)
FingerprintCandN == 200 \* getFirstNRows(hashDB, c.Name, 200)
FingerprintMinLen == 4 \* len(v) > 4
MappingN == 200        \* n := 200 in inferColumnMapping

\* ---------------------------------------------------------------- helpers
Range(s) == {s[i] : i \in DOMAIN s}

Min(a, b) == IF a < b THEN a ELSE b

Max(a, b) == IF a < b THEN b ELSE a

Abs(a) == IF a < 0 THEN 0 - a ELSE a

Take(s, n) == SubSeq(s, 1, Min(n, Len(s)))

RECURSIVE SumOver(_, _)
SumOver(S, f) ==
    IF S = {} THEN 0
    ELSE LET x == CHOOSE y \in S : TRUE IN f[x] + SumOver(S \ {x}, f)

\* A ratio of two floats converted from small integers compares like the
\* exact fraction, and so do the literals 0.5, 0.3 and 0.1 against n/d.
Ratio(n, d) == [num |-> n, den |-> d]

RatioGT(x, y) == x.num * y.den > y.num * x.den

RatioGE(x, y) == x.num * y.den >= y.num * x.den

\* ------------------------------------------------------------------ cells
IntCell(n) == [k |-> "int", n |-> n, s |-> <<>>]

TextCell(s) == [k |-> "text", n |-> 0, s |-> s]

NullCell == [k |-> "null", n |-> 0, s |-> <<>>]

RECURSIVE Decimal(_)
Decimal(n) == IF n < 10 THEN <<48 + n>> ELSE Decimal(n \div 10) \o <<48 + (n % 10)>>

\* fmt.Sprintf("%v", col): an integer in decimal, a text as it is, NULL as <nil>
Sprint(c) ==
    CASE c.k = "int" -> Decimal(c.n)
      [] c.k = "text" -> c.s
      [] OTHER -> <<60, 110, 105, 108, 62>>

\* byte-wise order of Go strings
RECURSIVE StrLess(_, _)
StrLess(a, b) ==
    IF b = <<>> THEN FALSE
    ELSE IF a = <<>> THEN TRUE
    ELSE IF a[1] # b[1] THEN a[1] < b[1]
    ELSE StrLess(Tail(a), Tail(b))

RECURSIVE Insert(_, _)
Insert(v, s) ==
    IF s = <<>> THEN <<v>>
    ELSE IF StrLess(s[1], v) THEN <<s[1]>> \o Insert(v, Tail(s))
    ELSE <<v>> \o s

\* sort.Strings
RECURSIVE SortStrings(_)
SortStrings(s) == IF s = <<>> THEN <<>> ELSE Insert(s[1], SortStrings(Tail(s)))

strSliceEqual(a, b) ==
    /\ Len(a) = Len(b)
    /\ \A i \in 1..Len(a) : a[i] = b[i]

\* ------------------------------------------------------- database reading
\* A database table is [Name, Cols, Rows]: Rows holds native cells.
getColumnCount(t) == t.Cols

countRowsInTable(t) == Len(t.Rows)

getFirstNRows(t, n) ==
    [i \in 1..Min(n, Len(t.Rows)) |-> [j \in 1..Len(t.Rows[i]) |-> Sprint(t.Rows[i][j])]]

TableInfoOf(t) ==
    [Name |-> t.Name,
     ColumnCount |-> getColumnCount(t),
     RowCount |-> countRowsInTable(t),
     FirstNRows |-> getFirstNRows(t, CatalogK)]

loadTables(db) == [i \in 1..Len(db) |-> TableInfoOf(db[i])]

\* mutant: the index does not separate the column counts
buildColumnCountIndexAnyCount(tables, colCount) == tables

\* hashedTableIndex[colCount], tables in catalog order
buildColumnCountIndex(tables, colCount) ==
    SelectSeq(tables, LAMBDA t : t.ColumnCount = colCount)

\* ------------------------------------------------------------- strategy 1
\* mutant: the rows are taken without sorting their values
sortedRowsUnsorted(rows, n) == Take(rows, n)

sortedRows(rows, n) == [i \in 1..Min(n, Len(rows)) |-> SortStrings(rows[i])]

SortedRowsMatch(orig, c) ==
    LET origSorted == sortedRows(orig.FirstNRows, SortedRowN)
        candSorted == sortedRows(c.FirstNRows, SortedRowN)
    IN /\ Len(candSorted) = Len(origSorted)
       /\ \A i \in 1..Len(origSorted) : strSliceEqual(origSorted[i], candSorted[i])

trySortedRowMatch(orig, candidates) ==
    IF Len(sortedRows(orig.FirstNRows, SortedRowN)) = 0 THEN <<>>
    ELSE SelectSeq(candidates, LAMBDA c : SortedRowsMatch(orig, c))

RECURSIVE DisambiguateFrom(_, _, _, _)
DisambiguateFrom(orig, candidates, i, best) ==
    IF i > Len(candidates) THEN best
    ELSE LET diff == Abs(orig.RowCount - candidates[i].RowCount)
             bestDiff == Abs(orig.RowCount - best.RowCount)
         IN DisambiguateFrom(orig, candidates, i + 1,
                             IF diff < bestDiff THEN candidates[i] ELSE best)

\* mutant: the row counts are not compared
disambiguateTakesFirst(orig, candidates) == candidates[1]

\* candidates is never empty where the cascade calls it
disambiguateByRowCount(orig, candidates) ==
    DisambiguateFrom(orig, candidates, 2, candidates[1])

\* ------------------------------------------------------------- strategy 2
RECURSIVE Flatten(_)
Flatten(rows) == IF rows = <<>> THEN <<>> ELSE rows[1] \o Flatten(Tail(rows))

buildFreqMap(values) ==
    [v \in Range(values) |-> Cardinality({i \in DOMAIN values : values[i] = v})]

buildMultiset(rows, n) == buildFreqMap(Flatten(Take(rows, n)))

FreqAt(f, k) == IF k \in DOMAIN f THEN f[k] ELSE 0

jaccardSimilarity(a, b) ==
    LET allKeys == DOMAIN a \cup DOMAIN b
        intersection == SumOver(allKeys, [k \in allKeys |-> Min(FreqAt(a, k), FreqAt(b, k))])
        union == SumOver(allKeys, [k \in allKeys |-> Max(FreqAt(a, k), FreqAt(b, k))])
    IN IF DOMAIN a = {} /\ DOMAIN b = {} THEN Ratio(1, 1)
       ELSE IF union = 0 THEN Ratio(0, 1)
       ELSE Ratio(intersection, union)

RECURSIVE MultisetFrom(_, _, _, _)
MultisetFrom(orig, candidates, i, best) ==
    IF i > Len(candidates) THEN best
    ELSE LET score == jaccardSimilarity(buildMultiset(orig.FirstNRows, MultisetN),
                                        buildMultiset(candidates[i].FirstNRows, MultisetN))
         IN MultisetFrom(orig, candidates, i + 1,
                         IF RatioGT(score, best.bestScore)
                         THEN [bestCandidate |-> i, bestScore |-> score]
                         ELSE best)

\* bestCandidate is a position in candidates, 0 for nil
tryMultisetMatch(orig, candidates) ==
    MultisetFrom(orig, candidates, 1, [bestCandidate |-> 0, bestScore |-> Ratio(0, 1)])

\* ------------------------------------------------------------- strategy 3
TableNamed(db, name) == db[CHOOSE i \in 1..Len(db) : db[i].Name = name]

CellValues(rows) == Range(Flatten(rows))

\* mutant: every value is taken for distinctive
FingerprintsAnyLength(origTable) == CellValues(getFirstNRows(origTable, FingerprintOrigN))

Fingerprints(origTable) ==
    {v \in CellValues(getFirstNRows(origTable, FingerprintOrigN)) : Len(v) > FingerprintMinLen}

RECURSIVE FingerprintFrom(_, _, _, _, _)
FingerprintFrom(fingerprints, candidates, hDB, i, best) ==
    IF i > Len(candidates) THEN best
    ELSE LET candValues ==
                 CellValues(getFirstNRows(TableNamed(hDB, candidates[i].Name), FingerprintCandN))
             matchCount == Cardinality(fingerprints \cap candValues)
             ratio == Ratio(matchCount, Cardinality(fingerprints))
         IN FingerprintFrom(fingerprints, candidates, hDB, i + 1,
                            IF RatioGT(ratio, best.bestRatio)
                            THEN [bestCandidate |-> i, bestRatio |-> ratio]
                            ELSE best)

\* a position in candidates, 0 for nil
tryFingerprintMatch(orig, candidates, oDB, hDB) ==
    LET fingerprints == Fingerprints(TableNamed(oDB, orig.Name))
        best == FingerprintFrom(fingerprints, candidates, hDB, 1,
                                [bestCandidate |-> 0, bestRatio |-> Ratio(0, 1)])
    IN IF fingerprints = {} THEN 0
       ELSE IF RatioGT(best.bestRatio, Ratio(1, 10)) THEN best.bestCandidate
       ELSE 0

\* --------------------------------------------------- column-mapping inferer
buildColumnVectors(rows, colCount) ==
    [j \in 1..colCount |->
        LET has == SelectSeq(rows, LAMBDA row : j <= Len(row))
        IN [i \in 1..Len(has) |-> has[i][j]]]

\* A state of the inferer: mapping[i + 1] is the 0-based target column of
\* reference column i (-1: none yet), usedHash[j + 1] marks target column j.
MappingInit(colCount) ==
    [mapping |-> [i \in 1..colCount |-> 0 - 1], usedHash |-> [j \in 1..colCount |-> FALSE]]

\* mutant: the target column is not marked used
AssignUnmarked(st, i, j) == [st EXCEPT !.mapping[i] = j - 1]

Assign(st, i, j) ==
    [mapping |-> [st.mapping EXCEPT ![i] = j - 1], usedHash |-> [st.usedHash EXCEPT ![j] = TRUE]]

\* Pass A's inner loop for reference column i: the first free target column
\* with an equal value vector
ExactMatchColumn(origCols, hashCols, st, i) ==
    LET free == {j \in DOMAIN hashCols : ~st.usedHash[j] /\ strSliceEqual(origCols[i], hashCols[j])}
    IN IF free = {} THEN st
       ELSE Assign(st, i, CHOOSE j \in free : \A j2 \in free : j <= j2)

RECURSIVE PassAFrom(_, _, _, _)
PassAFrom(origCols, hashCols, st, i) ==
    IF i > Len(origCols) THEN st
    ELSE PassAFrom(origCols, hashCols,
                   IF st.mapping[i] # 0 - 1 THEN st ELSE ExactMatchColumn(origCols, hashCols, st, i),
                   i + 1)

RECURSIVE BestJFrom(_, _, _, _, _)
BestJFrom(origFreq, hashCols, st, j, best) ==
    IF j > Len(hashCols) THEN best
    ELSE LET sim == jaccardSimilarity(origFreq, buildFreqMap(hashCols[j]))
         IN BestJFrom(origFreq, hashCols, st, j + 1,
                      IF ~st.usedHash[j] /\ RatioGT(sim, best.bestSim)
                      THEN [bestJ |-> j, bestSim |-> sim]
                      ELSE best)

\* Pass B's body for reference column i: the free target column of the best
\* frequency Jaccard above 0.3
StatMatchColumn(origCols, hashCols, st, i) ==
    LET best == BestJFrom(buildFreqMap(origCols[i]), hashCols, st, 1,
                          [bestJ |-> 0, bestSim |-> Ratio(3, 10)])
    IN IF best.bestJ >= 1 THEN Assign(st, i, best.bestJ) ELSE st

RECURSIVE PassBFrom(_, _, _, _)
PassBFrom(origCols, hashCols, st, i) ==
    IF i > Len(origCols) THEN st
    ELSE PassBFrom(origCols, hashCols,
                   IF st.mapping[i] # 0 - 1 THEN st ELSE StatMatchColumn(origCols, hashCols, st, i),
                   i + 1)

\* Pass C as its heading comment words it: elimination only when exactly one
\* column is left on each side
PassCLastPairOnly(st) ==
    LET colCount == Len(st.mapping)
        unmappedOrig == SelectSeq([i \in 1..colCount |-> i], LAMBDA i : st.mapping[i] = 0 - 1)
        unmappedHash == SelectSeq([j \in 1..colCount |-> j], LAMBDA j : ~st.usedHash[j])
    IN IF Len(unmappedOrig) = 1 /\ Len(unmappedHash) = 1
       THEN [st EXCEPT !.mapping[unmappedOrig[1]] = unmappedHash[1] - 1]
       ELSE st

\* Pass C: the unmapped reference columns and the free target columns, paired
\* in ascending order when there are as many of the one as of the other
PassC(st) ==
    LET colCount == Len(st.mapping)
        unmappedOrig == SelectSeq([i \in 1..colCount |-> i], LAMBDA i : st.mapping[i] = 0 - 1)
        unmappedHash == SelectSeq([j \in 1..colCount |-> j], LAMBDA j : ~st.usedHash[j])
        Pos(i) == CHOOSE k \in 1..Len(unmappedOrig) : unmappedOrig[k] = i
    IN IF Len(unmappedOrig) = Len(unmappedHash)
       THEN [st EXCEPT !.mapping =
                [i \in 1..colCount |->
                    IF st.mapping[i] = 0 - 1 THEN unmappedHash[Pos(i)] - 1 ELSE st.mapping[i]]]
       ELSE st

\* Pass D: identity for what is still unmapped
PassD(st) ==
    [st EXCEPT !.mapping = [i \in DOMAIN st.mapping |->
                               IF st.mapping[i] = 0 - 1 THEN i - 1 ELSE st.mapping[i]]]

\* the inferer's state after each pass, for tables of equal column count
AfterPassA(origTable, hashTable) ==
    LET colCount == getColumnCount(origTable)
    IN PassAFrom(buildColumnVectors(getFirstNRows(origTable, MappingN), colCount),
                 buildColumnVectors(getFirstNRows(hashTable, MappingN), colCount),
                 MappingInit(colCount), 1)

AfterPassB(origTable, hashTable) ==
    LET colCount == getColumnCount(origTable)
    IN PassBFrom(buildColumnVectors(getFirstNRows(origTable, MappingN), colCount),
                 buildColumnVectors(getFirstNRows(hashTable, MappingN), colCount),
                 AfterPassA(origTable, hashTable), 1)

AfterPassC(origTable, hashTable) == PassC(AfterPassB(origTable, hashTable))

inferColumnMapping(origTable, hashTable) ==
    IF getColumnCount(origTable) # getColumnCount(hashTable)
    THEN [i \in 1..getColumnCount(origTable) |-> i - 1]
    ELSE PassD(AfterPassC(origTable, hashTable)).mapping

\* ---------------------------------------------------------------- cascade
NoResult == [Strategy |-> 0]

MatchResult(origTable, hashTable, strategy) ==
    [OrigTable |-> origTable.Name,
     HashedTable |-> hashTable.Name,
     ColumnMapping |-> inferColumnMapping(origTable, hashTable),
     Strategy |-> strategy]

\* What each strategy answers on its own: a position in candidates, 0 when it
\* declines.
Strategy1(orig, candidates) ==
    LET matched == trySortedRowMatch(orig, candidates)
        Pos(c) == CHOOSE i \in 1..Len(candidates) : candidates[i] = c
    IN IF Len(matched) = 1 THEN Pos(matched[1])
       ELSE IF Len(matched) > 1 THEN Pos(disambiguateByRowCount(orig, matched))
       ELSE 0

Strategy2(orig, candidates) ==
    LET best == tryMultisetMatch(orig, candidates)
    IN IF best.bestCandidate # 0 /\ RatioGE(best.bestScore, Ratio(1, 2))
       THEN best.bestCandidate ELSE 0

Strategy3(orig, candidates, oDB, hDB) == tryFingerprintMatch(orig, candidates, oDB, hDB)

\* mutant: Strategy 2 is asked before Strategy 1
matchTableMultisetFirst(orig, candidates, oDB, hDB) ==
    LET Res(i, s) == MatchResult(TableNamed(oDB, orig.Name), TableNamed(hDB, candidates[i].Name), s)
        s1 == Strategy1(orig, candidates)
        s2 == Strategy2(orig, candidates)
        s3 == Strategy3(orig, candidates, oDB, hDB)
    IN IF s2 # 0 THEN [result |-> Res(s2, 2), consulted |-> <<2>>]
       ELSE IF s1 # 0 THEN [result |-> Res(s1, 1), consulted |-> <<2, 1>>]
       ELSE IF s3 # 0 THEN [result |-> Res(s3, 3), consulted |-> <<2, 1, 3>>]
       ELSE [result |-> NoResult, consulted |-> <<2, 1, 3>>]

\* matchTable: [result, consulted], consulted being the strategies it ran, in
\* the order it ran them
matchTable(orig, candidates, oDB, hDB) ==
    LET Res(i, s) == MatchResult(TableNamed(oDB, orig.Name), TableNamed(hDB, candidates[i].Name), s)
        s1 == Strategy1(orig, candidates)
        s2 == Strategy2(orig, candidates)
        s3 == Strategy3(orig, candidates, oDB, hDB)
    IN IF s1 # 0 THEN [result |-> Res(s1, 1), consulted |-> <<1>>]
       ELSE IF s2 # 0 THEN [result |-> Res(s2, 2), consulted |-> <<1, 2>>]
       ELSE IF s3 # 0 THEN [result |-> Res(s3, 3), consulted |-> <<1, 2, 3>>]
       ELSE [result |-> NoResult, consulted |-> <<1, 2, 3>>]

\* ------------------------------------------------------------------ state
VARIABLES
    origDB,            \* the reference database: a sequence of tables
    hashDB,            \* the target (hashed) database
    filter,            \* filter != ""
    filterTables,      \* the names read from the filter file
    pc,                \* where run is: "loop", "copy_create", "copy_query",
                       \* "copy_rows", "done", "fatal"
    idx,               \* position of the loop in originalTables
    matchedByStrategy,
    unmatched,
    usedHashedTables,
    tableMapping,
    candidates,        \* the candidate list of the iteration last matched
    consulted,         \* the strategies matchTable ran in that iteration
    results,           \* the MatchResults of the run, in order
    newDB,             \* the output database: committed tables by name
    txState,           \* "none", "open", "rolledback"
    txRows,            \* rows inserted in the open transaction
    cursor,            \* rows read so far from the copier's SELECT
    fatal              \* the stage whose error ended the process, "" if none

vars == <<origDB, hashDB, filter, filterTables, pc, idx, matchedByStrategy, unmatched,
          usedHashedTables, tableMapping, candidates, consulted, results, newDB,
          txState, txRows, cursor, fatal>>

inputVars == <<origDB, hashDB, filter, filterTables>>

bookVars == <<matchedByStrategy, unmatched, usedHashedTables, tableMapping, results>>

matchVars == <<candidates, consulted>>

txVars == <<txState, txRows, cursor>>

originalTables == loadTables(origDB)

hashedTables == loadTables(hashDB)

\* ----------------------------------------------------------------- inputs
RefName(i) == <<"t", i>>

TgtName(j) == <<"h", j>>

Table(name, cols, rows) == [Name |-> name, Cols |-> cols, Rows |-> rows]

I1 == IntCell(1)

I2 == IntCell(2)

Rep(row, n) == [i \in 1..n |-> row]

\* Pooled catalogs: reference and target tables chosen to meet every branch of
\* the loop and of the cascade.  Each entry is <<column count, rows>>.
RefPool ==
    { <<1, <<>>>>,                          \* an empty table
      <<1, Rep(<<I2>>, 3)>>,                \* short values only
      <<1, << <<I2>>, <<NullCell>> >>>>,
      <<2, << <<NullCell, I1>>, <<I1, I1>>, <<I1, I1>> >>>> }

TgtPool ==
    { <<1, Rep(<<I2>>, 4)>>,
      <<1, Rep(<<I2>>, 5)>>,
      <<1, << <<NullCell>>, <<I2>> >>>>,
      <<2, << <<I2, NullCell>>, <<I2, I2>>, <<I2, I2>> >>>> }

FilterChoices ==
    {[on |-> FALSE, tables |-> {}]}
        \cup {[on |-> TRUE, tables |-> {RefName(i)}] : i \in 1..NumRef}

InitRun ==
    /\ pc = "loop"
    /\ idx = 1
    /\ matchedByStrategy = [s \in 1..3 |-> 0]
    /\ unmatched = <<>>
    /\ usedHashedTables = {}
    /\ tableMapping = <<>>
    /\ candidates = <<>>
    /\ consulted = <<>>
    /\ results = <<>>
    /\ newDB = <<>>
    /\ txState = "none"
    /\ txRows = <<>>
    /\ cursor = 0
    /\ fatal = ""

InitCatalog ==
    /\ \E refs \in [1..NumRef -> RefPool], tgts \in [1..NumTgt -> TgtPool] :
          /\ origDB = [i \in 1..NumRef |-> Table(RefName(i), refs[i][1], refs[i][2])]
          /\ hashDB = [j \in 1..NumTgt |-> Table(TgtName(j), tgts[j][1], tgts[j][2])]
    /\ \E f \in FilterChoices :
          /\ filter = f.on
          /\ filterTables = f.tables
    /\ InitRun

\* Derived pairs: one reference table of at most MaxCols columns and MaxCells
\* cells, and the target a hashed build of the same data makes of it: columns
\* permuted, and the rows as they are, with rows 2 and 3 swapped, with the last
\* row missing, with one cell changed, or with one integer cell stored as the
\* text of the same digits.
DerivedCells == {I1, I2}

Perms(c) == {p \in [1..c -> 1..c] : \A a, b \in 1..c : p[a] = p[b] => a = b}

PermuteColumns(rows, p) == [i \in 1..Len(rows) |-> [j \in 1..Len(p) |-> rows[i][p[j]]]]

SwapRows(rows, a, b) ==
    [i \in 1..Len(rows) |-> IF i = a THEN rows[b] ELSE IF i = b THEN rows[a] ELSE rows[i]]

RowOps == {"same", "swap23", "truncate", "drift", "retype"}

ApplyRowOp(rows, op) ==
    CASE op = "swap23" -> SwapRows(rows, 2, 3)
      [] op = "truncate" -> SubSeq(rows, 1, Len(rows) - 1)
      [] op = "drift" -> [rows EXCEPT ![1][1] = NullCell]
      [] op = "retype" -> [rows EXCEPT ![1][1] = TextCell(Sprint(@))]
      [] OTHER -> rows

OpApplies(rows, op) ==
    CASE op = "swap23" -> Len(rows) >= 3
      [] op = "truncate" -> Len(rows) >= 2
      [] OTHER -> TRUE

Derive(rows, p, op) == ApplyRowOp(PermuteColumns(rows, p), op)

InitDerived ==
    /\ \E c \in 1..MaxCols :
          \E r \in 1..(MaxCells \div c) :
          \E rows \in [1..r -> [1..c -> DerivedCells]], p \in Perms(c), op \in RowOps :
             /\ OpApplies(rows, op)
             /\ origDB = <<Table(RefName(1), c, rows)>>
             /\ hashDB = <<Table(TgtName(1), c, Derive(rows, p, op))>>
    /\ filter = FALSE
    /\ filterTables = {}
    /\ InitRun

Init == InitCatalog \/ InitDerived

\* --------------------------------------------------------------- run loop
InLoop == pc = "loop" /\ idx <= Len(originalTables)

orig == originalTables[idx]

PassesFilter == ~filter \/ orig.Name \in filterTables

\* mutant: used target tables stay candidates
CandidatesWithUsed(o, used) == buildColumnCountIndex(hashedTables, o.ColumnCount)

\* candidates with the same column count, not already used
Candidates(o, used) ==
    SelectSeq(buildColumnCountIndex(hashedTables, o.ColumnCount), LAMBDA c : c.Name \notin used)

getCreateTableStatement(t) == [table |-> t.Name, cols |-> t.Cols]

\* newDB.Exec(createStmt)
CreateTable(db, stmt) ==
    [n \in DOMAIN db \cup {stmt.table} |->
        IF n = stmt.table THEN [schema |-> stmt, rows |-> <<>>] ELSE db[n]]

\* mutant: the entry is keyed by the target name
PutMappingByTarget(m, k, v) == [n \in DOMAIN m \cup {v} |-> IF n = v THEN k ELSE m[n]]

\* tableMapping[result.OrigTable] = result.HashedTable
PutMapping(m, k, v) == [n \in DOMAIN m \cup {k} |-> IF n = k THEN v ELSE m[n]]

SkipFiltered ==
    /\ InLoop
    /\ ~PassesFilter
    /\ idx' = idx + 1
    /\ UNCHANGED <<inputVars, pc, bookVars, matchVars, newDB, txVars, fatal>>

\* mutant: the empty table is also reported as unmatched
CopyEmptyUnmatched ==
    /\ InLoop
    /\ PassesFilter
    /\ orig.RowCount = 0
    /\ newDB' = CreateTable(newDB, getCreateTableStatement(TableNamed(origDB, orig.Name)))
    /\ unmatched' = Append(unmatched, orig.Name)
    /\ idx' = idx + 1
    /\ UNCHANGED <<inputVars, pc, fatal, matchedByStrategy, usedHashedTables, tableMapping,
                   results, matchVars, txVars>>

CopyEmpty ==
    /\ InLoop
    /\ PassesFilter
    /\ orig.RowCount = 0
    /\ \/ /\ newDB' = CreateTable(newDB, getCreateTableStatement(TableNamed(origDB, orig.Name)))
          /\ idx' = idx + 1
          /\ UNCHANGED <<pc, fatal>>
       \/ /\ pc' = "fatal"
          /\ fatal' = "create_empty"
          /\ UNCHANGED <<newDB, idx>>
    /\ UNCHANGED <<inputVars, bookVars, matchVars, txVars>>

NoCandidates ==
    /\ InLoop
    /\ PassesFilter
    /\ orig.RowCount # 0
    /\ Candidates(orig, usedHashedTables) = <<>>
    /\ candidates' = <<>>
    /\ consulted' = <<>>
    /\ unmatched' = Append(unmatched, orig.Name)
    /\ idx' = idx + 1
    /\ UNCHANGED <<inputVars, pc, matchedByStrategy, usedHashedTables, tableMapping, results,
                   newDB, txVars, fatal>>

NoMatch ==
    /\ InLoop
    /\ PassesFilter
    /\ orig.RowCount # 0
    /\ LET cands == Candidates(orig, usedHashedTables)
           m == matchTable(orig, cands, origDB, hashDB)
       IN /\ cands # <<>>
          /\ m.result = NoResult
          /\ candidates' = cands
          /\ consulted' = m.consulted
    /\ unmatched' = Append(unmatched, orig.Name)
    /\ idx' = idx + 1
    /\ UNCHANGED <<inputVars, pc, matchedByStrategy, usedHashedTables, tableMapping, results,
                   newDB, txVars, fatal>>

Match ==
    /\ InLoop
    /\ PassesFilter
    /\ orig.RowCount # 0
    /\ LET cands == Candidates(orig, usedHashedTables)
           m == matchTable(orig, cands, origDB, hashDB)
       IN /\ cands # <<>>
          /\ m.result # NoResult
          /\ candidates' = cands
          /\ consulted' = m.consulted
          /\ matchedByStrategy' =
                 [matchedByStrategy EXCEPT ![m.result.Strategy] = matchedByStrategy[m.result.Strategy] + 1]
          /\ usedHashedTables' = usedHashedTables \cup {m.result.HashedTable}
          /\ tableMapping' = PutMapping(tableMapping, m.result.OrigTable, m.result.HashedTable)
          /\ results' = Append(results, m.result)
    /\ pc' = "copy_create"
    /\ UNCHANGED <<inputVars, idx, unmatched, newDB, txVars, fatal>>

\* ------------------------------------------------------------- row copier
result == results[Len(results)]

\* mutant: SELECT * in the target's own column order
selectColsUnmapped(row, colMapping) == row

\* SELECT [c_m[0]], [c_m[1]], ... : the target row seen through colMapping
selectCols(row, colMapping) ==
    [i \in 1..Len(colMapping) |->
        IF colMapping[i] >= 0 /\ colMapping[i] < Len(row)
        THEN row[colMapping[i] + 1] ELSE row[i]]

hashedRows == TableNamed(hashDB, result.HashedTable).Rows

CopyCreate ==
    /\ pc = "copy_create"
    /\ newDB' = CreateTable(newDB, getCreateTableStatement(TableNamed(origDB, result.OrigTable)))
    /\ pc' = "copy_query"
    /\ UNCHANGED <<inputVars, idx, bookVars, matchVars, txVars, fatal>>

\* Query, Columns, Begin and Prepare all succeed
CopyQuery ==
    /\ pc = "copy_query"
    /\ txState' = "open"
    /\ txRows' = <<>>
    /\ cursor' = 0
    /\ pc' = "copy_rows"
    /\ UNCHANGED <<inputVars, idx, bookVars, matchVars, newDB, fatal>>

\* one turn of the rows.Next loop: Scan, then Exec of the prepared INSERT
CopyRow ==
    /\ pc = "copy_rows"
    /\ cursor < Len(hashedRows)
    /\ txRows' = Append(txRows, selectCols(hashedRows[cursor + 1], result.ColumnMapping))
    /\ cursor' = cursor + 1
    /\ UNCHANGED <<inputVars, pc, idx, bookVars, matchVars, newDB, txState, fatal>>

CopyCommit ==
    /\ pc = "copy_rows"
    /\ cursor = Len(hashedRows)
    /\ newDB' = [newDB EXCEPT ![result.OrigTable].rows = @ \o txRows]
    /\ txState' = "none"
    /\ txRows' = <<>>
    /\ idx' = idx + 1
    /\ pc' = "loop"
    /\ UNCHANGED <<inputVars, bookVars, matchVars, cursor, fatal>>

\* The stages of copyData that can fail, with the place run is at when they do
\* and whether the code rolls the transaction back before log.Fatal.
FailStages ==
    { [stage |-> "create",  at |-> "copy_create", rollback |-> FALSE],
      [stage |-> "select",  at |-> "copy_query",  rollback |-> FALSE],
      [stage |-> "columns", at |-> "copy_query",  rollback |-> FALSE],
      [stage |-> "begin",   at |-> "copy_query",  rollback |-> FALSE],
      [stage |-> "prepare", at |-> "copy_query",  rollback |-> TRUE],
      [stage |-> "scan",    at |-> "copy_rows",   rollback |-> TRUE],
      [stage |-> "insert",  at |-> "copy_rows",   rollback |-> TRUE],
      [stage |-> "commit",  at |-> "copy_rows",   rollback |-> FALSE] }

\* mutant: log.Fatal without tx.Rollback()
RollbackMissing == UNCHANGED <<txState, txRows>>

\* tx.Rollback(): nothing of the transaction remains
Rollback == /\ txState' = "rolledback"
            /\ txRows' = <<>>

CopyFatal ==
    /\ \E f \in FailStages :
          /\ pc = f.at
          /\ f.stage \in {"scan", "insert"} => cursor < Len(hashedRows)
          /\ f.stage = "commit" => cursor = Len(hashedRows)
          /\ fatal' = f.stage
          /\ IF f.rollback THEN Rollback ELSE UNCHANGED <<txState, txRows>>
    /\ pc' = "fatal"
    /\ UNCHANGED <<inputVars, idx, bookVars, matchVars, newDB, cursor>>

Finish ==
    /\ pc = "loop"
    /\ idx > Len(originalTables)
    /\ pc' = "done"
    /\ UNCHANGED <<inputVars, idx, bookVars, matchVars, newDB, txVars, fatal>>

Next ==
    \/ SkipFiltered
    \/ CopyEmpty
    \/ NoCandidates
    \/ NoMatch
    \/ Match
    \/ CopyCreate
    \/ CopyQuery
    \/ CopyRow
    \/ CopyCommit
    \/ CopyFatal
    \/ Finish

Spec == Init /\ [][Next]_vars

\* ================================================================= claims
OrigOf(r) == TableNamed(origDB, r.OrigTable)

HashedOf(r) == TableNamed(hashDB, r.HashedTable)

\* the copy of the k-th matched pair has committed
CopyCompleted(k) ==
    \/ k < Len(results)
    \/ pc \in {"loop", "done"}
    \/ pc = "fatal" /\ fatal = "create_empty"

\* C1: no target table name is ever assigned to two reference tables: the
\* targets recorded in tableMapping are pairwise distinct, every one of them is
\* in usedHashedTables, and no two MatchResults name the same target.
C1_TargetsDistinct ==
    /\ \A a, b \in DOMAIN tableMapping : tableMapping[a] = tableMapping[b] => a = b
    /\ {tableMapping[a] : a \in DOMAIN tableMapping} = usedHashedTables
    /\ \A i, j \in 1..Len(results) : results[i].HashedTable = results[j].HashedTable => i = j

\* two reference tables are matched, and the second would have taken the
\* first one's target had it still been a candidate
C1_Witness ==
    /\ Len(results) = 2
    /\ LET second == TableInfoOf(OrigOf(results[2]))
           m == matchTable(second, Candidates(second, {}), origDB, hashDB)
       IN m.result.HashedTable = results[1].HashedTable

\* C2: every recorded match, whichever strategy made it, pairs a reference
\* table and a target table of the same column count.
C2_SameColumnCount ==
    \A k \in 1..Len(results) :
        getColumnCount(OrigOf(results[k])) = getColumnCount(HashedOf(results[k]))

\* a match is recorded while the target catalog also holds a table of another
\* column count
C2_Witness ==
    /\ Len(results) >= 1
    /\ \E j \in 1..Len(hashDB) : hashDB[j].Cols # getColumnCount(OrigOf(results[1]))

\* C3: the mapping of every MatchResult is as long as the shared column count,
\* every entry lies in [0, columnCount), and the entries set by Pass A, B or C
\* (those the inferer holds before the identity fill) are kept in the result
\* and name no target column twice.
C3_MappingValid ==
    \A k \in 1..Len(results) :
        LET m == results[k].ColumnMapping
            colCount == getColumnCount(OrigOf(results[k]))
            set == AfterPassC(OrigOf(results[k]), HashedOf(results[k])).mapping
        IN /\ Len(m) = colCount
           /\ \A i \in 1..Len(m) : m[i] >= 0 /\ m[i] < colCount
           /\ Len(set) = colCount
           /\ \A i \in 1..colCount : set[i] # 0 - 1 => m[i] = set[i]
           /\ \A a, b \in 1..colCount :
                 (set[a] # 0 - 1 /\ set[b] # 0 - 1 /\ set[a] = set[b]) => a = b

\* a match of three columns of which Pass A resolves some and Pass B none of
\* the rest, so that Pass C pairs what is left
C3_Witness ==
    \E k \in 1..Len(results) :
        LET a == AfterPassA(OrigOf(results[k]), HashedOf(results[k])).mapping
            b == AfterPassB(OrigOf(results[k]), HashedOf(results[k])).mapping
        IN /\ Len(a) = 3
           /\ \E i \in 1..Len(a) : a[i] # 0 - 1
           /\ \E i \in 1..Len(b) : b[i] = 0 - 1
           /\ \E i \in 1..Len(a) : results[k].ColumnMapping[i] # i - 1

\* the rows the copy of a match must produce: output column i holds target
\* column mapping[i]
ExpectedRows(r) ==
    LET rows == HashedOf(r).Rows
    IN [n \in 1..Len(rows) |-> [i \in 1..Len(r.ColumnMapping) |-> rows[n][r.ColumnMapping[i] + 1]]]

BagOfRows(rows) == [row \in Range(rows) |-> Cardinality({n \in DOMAIN rows : rows[n] = row})]

Cascading ==
    /\ InLoop
    /\ PassesFilter
    /\ orig.RowCount # 0
    /\ Candidates(orig, usedHashedTables) # <<>>

\* C5: processing a reference table of no rows creates that table in the
\* output, with the reference schema and no rows, and changes nothing else: no
\* strategy runs, usedHashedTables, tableMapping, the counters, the unmatched
\* list and every other output table stay as they are.  (Its CREATE TABLE
\* failing ends the run instead, and changes nothing either.)
C5_EmptyTableFrame ==
    [][(InLoop /\ PassesFilter /\ orig.RowCount = 0) =>
          \/ /\ pc' = "fatal"
             /\ fatal' = "create_empty"
             /\ UNCHANGED <<newDB, bookVars, matchVars, txVars, idx>>
          \/ /\ DOMAIN newDB' = DOMAIN newDB \cup {orig.Name}
             /\ newDB'[orig.Name] =
                    [schema |-> getCreateTableStatement(TableNamed(origDB, orig.Name)),
                     rows |-> <<>>]
             /\ \A n \in DOMAIN newDB \ {orig.Name} : newDB'[n] = newDB[n]
             /\ idx' = idx + 1
             /\ UNCHANGED <<usedHashedTables, tableMapping, matchedByStrategy, unmatched,
                            results, candidates, consulted, txVars, pc, fatal>>]_vars

\* an empty reference table has been copied although the target catalog holds
\* a table of its column count
C5_Witness ==
    /\ pc # "fatal"
    /\ \E i \in 1..(idx - 1) :
          /\ originalTables[i].RowCount = 0
          /\ originalTables[i].Name \in DOMAIN newDB
          /\ newDB[originalTables[i].Name].rows = <<>>
          /\ Candidates(originalTables[i], {}) # <<>>

\* C6: the cascade asks Strategy 1, then 2, then 3, and stops at the first
\* that accepts: a strategy-1 match is the target Strategy 1 selects on its own
\* and neither Strategy 2 nor 3 was run; a strategy-2 match comes only after
\* Strategy 1 declined; Strategy 3 runs only after both declined.
C6_CascadeOrder ==
    [][Cascading =>
          LET s1 == Strategy1(orig, candidates')
              s2 == Strategy2(orig, candidates')
              s3 == Strategy3(orig, candidates', origDB, hashDB)
              r == results'[Len(results')]
          IN /\ candidates' = Candidates(orig, usedHashedTables)
             /\ 3 \in Range(consulted') => (s1 = 0 /\ s2 = 0)
             /\ 2 \in Range(consulted') => s1 = 0
             /\ IF Len(results') > Len(results)
                THEN /\ r.Strategy \in 1..3
                     /\ r.Strategy = 1 =>
                            /\ s1 # 0
                            /\ candidates'[s1].Name = r.HashedTable
                            /\ consulted' = <<1>>
                     /\ r.Strategy = 2 =>
                            /\ s2 # 0
                            /\ candidates'[s2].Name = r.HashedTable
                            /\ consulted' = <<1, 2>>
                     /\ r.Strategy = 3 =>
                            /\ s3 # 0
                            /\ candidates'[s3].Name = r.HashedTable
                            /\ consulted' = <<1, 2, 3>>
                ELSE /\ s1 = 0 /\ s2 = 0 /\ s3 = 0
                     /\ consulted' = <<1, 2, 3>>]_vars

\* one run matches a table by Strategy 1 that Strategy 2 would have accepted
\* too, and another table by Strategy 3
C6_Witness ==
    /\ matchedByStrategy[1] >= 1
    /\ matchedByStrategy[3] >= 1
    /\ \E k \in 1..Len(results) :
          /\ results[k].Strategy = 1
          /\ Strategy2(TableInfoOf(OrigOf(results[k])),
                       Candidates(TableInfoOf(OrigOf(results[k])), {})) # 0

AllShort(t) == \A v \in CellValues(getFirstNRows(t, FingerprintOrigN)) : Len(v) <= FingerprintMinLen

ScoreOf(o, c) ==
    jaccardSimilarity(buildMultiset(o.FirstNRows, MultisetN), buildMultiset(c.FirstNRows, MultisetN))

Strategy1Ties(o, cands) == Len(trySortedRowMatch(o, cands)) > 1

Strategy1Fails(o, cands) == Len(trySortedRowMatch(o, cands)) = 0

Strategy2Fails(o, cands) == ~RatioGE(tryMultisetMatch(o, cands).bestScore, Ratio(1, 2))

Strategy2Ties(o, cands) ==
    \E i, j \in 1..Len(cands) :
        /\ i # j
        /\ i = tryMultisetMatch(o, cands).bestCandidate
        /\ ~RatioGT(ScoreOf(o, cands[i]), ScoreOf(o, cands[j]))

RecordedUnmatched ==
    /\ unmatched' = Append(unmatched, orig.Name)
    /\ usedHashedTables' = usedHashedTables
    /\ tableMapping' = tableMapping
    /\ idx' = idx + 1
    /\ pc' = "loop"

\* C8 as the claim states it: short values only, and Strategies 1 and 2 each
\* tie or fail, then the table is recorded unmatched.
C8_TieOrFailUnmatched ==
    [][(/\ InLoop
        /\ PassesFilter
        /\ orig.RowCount # 0
        /\ AllShort(TableNamed(origDB, orig.Name))
        /\ LET cands == Candidates(orig, usedHashedTables)
           IN /\ Strategy1Ties(orig, cands) \/ Strategy1Fails(orig, cands)
              /\ Strategy2Ties(orig, cands) \/ Strategy2Fails(orig, cands))
       => RecordedUnmatched]_vars

\* C8, amended: for a reference table whose cell values in its first 50 rows
\* are all at most 4 long, for which Strategy 1 matches no candidate and the
\* best Strategy-2 score is below 0.5, the run records the table as unmatched,
\* consumes no target, adds no TableMapping entry and goes on to the next
\* reference table.
C8_FailUnmatched ==
    [][(/\ InLoop
        /\ PassesFilter
        /\ orig.RowCount # 0
        /\ AllShort(TableNamed(origDB, orig.Name))
        /\ LET cands == Candidates(orig, usedHashedTables)
           IN /\ Strategy1Fails(orig, cands)
              /\ Strategy2Fails(orig, cands))
       => RecordedUnmatched]_vars

\* a table of short values was recorded unmatched although a candidate shares
\* values with it, and the next reference table has been reached
C8_Witness ==
    /\ pc = "loop"
    /\ idx = 2
    /\ unmatched = <<originalTables[1].Name>>
    /\ idx <= Len(originalTables)
    /\ AllShort(origDB[1])
    /\ candidates # <<>>
    /\ consulted = <<1, 2, 3>>
    /\ \E i \in 1..Len(candidates) : ScoreOf(originalTables[1], candidates[i]).num > 0

\* the scenario of C9: one reference table of 3 to 10 rows, rows 2 and 3
\* different, and, as the only target, the same rows with the columns permuted
\* and rows 2 and 3 swapped
SwapScenario ==
    /\ Len(origDB) = 1
    /\ Len(hashDB) = 1
    /\ Len(origDB[1].Rows) >= 3
    /\ Len(origDB[1].Rows) <= 10
    /\ origDB[1].Rows[2] # origDB[1].Rows[3]
    /\ origDB[1].Cols = hashDB[1].Cols
    /\ \E p \in Perms(origDB[1].Cols) : hashDB[1].Rows = Derive(origDB[1].Rows, p, "swap23")

Processed == Len(results) + Len(unmatched) >= 1

NoneUnmapped(mapping) == \A i \in 1..Len(mapping) : mapping[i] # 0 - 1

Rows23Differ ==
    SortStrings(originalTables[1].FirstNRows[2]) # SortStrings(originalTables[1].FirstNRows[3])

C10_Strategy1Choice ==
    [][Cascading =>
          LET matched == trySortedRowMatch(orig, Candidates(orig, usedHashedTables))
              Diff(c) == Abs(orig.RowCount - c.RowCount)
              r == results'[Len(results')]
          IN /\ Len(matched) >= 1 =>
                   /\ results' = Append(results, r)
                   /\ r.Strategy = 1
                   /\ \E k \in 1..Len(matched) :
                         /\ matched[k].Name = r.HashedTable
                         /\ \A l \in 1..Len(matched) : Diff(matched[k]) <= Diff(matched[l])
                         /\ \A l \in 1..(k - 1) : Diff(matched[l]) > Diff(matched[k])
             /\ Len(matched) = 0 =>
                   /\ Len(consulted') >= 2
                   /\ consulted'[2] = 2
                   /\ Len(results') > Len(results) => r.Strategy # 1]_vars

\* two candidates passed Strategy 1 and the second, closer in rowCount, was
\* taken
C10_Witness ==
    /\ pc = "copy_create"
    /\ LET matched == trySortedRowMatch(orig, candidates)
       IN /\ Len(matched) = 2
          /\ result.Strategy = 1
          /\ result.HashedTable = matched[2].Name

\* ---- C11 ----

CountUnmapped(st) == Cardinality({i \in DOMAIN st.mapping : st.mapping[i] = 0 - 1})

CountUnusedHash(st) == Cardinality({j \in DOMAIN st.usedHash : ~st.usedHash[j]})

IsBijection(mapping) ==
    /\ \A i \in DOMAIN mapping : mapping[i] \in 0..(Len(mapping) - 1)
    /\ \A i, j \in DOMAIN mapping : i # j => mapping[i] # mapping[j]

\* the positions of the target row the copier selects for a matched pair
SelectedColumns(r) ==
    [i \in DOMAIN r.ColumnMapping |->
        IF r.ColumnMapping[i] >= 0 /\ r.ColumnMapping[i] < getColumnCount(HashedOf(r))
        THEN r.ColumnMapping[i] ELSE i - 1]

ProcessedTables == 1..(idx - 1)

PassedFilter(i) == ~filter \/ originalTables[i].Name \in filterTables

EmptyCopied(i) ==
    /\ originalTables[i].RowCount = 0
    /\ originalTables[i].Name \in DOMAIN newDB
    /\ newDB[originalTables[i].Name].rows = <<>>

Matched(i) == originalTables[i].Name \in DOMAIN tableMapping

Unmatched(i) == originalTables[i].Name \in Range(unmatched)

Outcomes(i) ==
    (IF EmptyCopied(i) THEN 1 ELSE 0) + (IF Matched(i) THEN 1 ELSE 0)
        + (IF Unmatched(i) THEN 1 ELSE 0)

C12_Bookkeeping ==
    /\ \A i \in ProcessedTables :
          /\ PassedFilter(i) => Outcomes(i) = 1
          /\ ~PassedFilter(i) => Outcomes(i) = 0 /\ originalTables[i].Name \notin DOMAIN newDB
    /\ Cardinality(usedHashedTables) = Cardinality(DOMAIN tableMapping)
    /\ Cardinality(DOMAIN tableMapping)
          = matchedByStrategy[1] + matchedByStrategy[2] + matchedByStrategy[3]
    /\ DOMAIN tableMapping \cap Range(unmatched) = {}

C12_NothingLost ==
    /\ usedHashedTables \subseteq usedHashedTables'
    /\ \A n \in DOMAIN tableMapping :
          n \in DOMAIN tableMapping' /\ tableMapping'[n] = tableMapping[n]

\* C12: in every state, each reference table whose iteration has ended and
\* that passed the filter has exactly one of the outcomes empty-schema copied,
\* matched, unmatched (a filtered-out table has none); usedHashedTables has as
\* many entries as tableMapping, which has as many as the three strategy
\* counters add up to; no tableMapping key is in the unmatched list; and no
\* step removes an entry from usedHashedTables or removes or changes an entry
\* of tableMapping.
C12_OutcomesAndBookkeeping == []C12_Bookkeeping /\ [][C12_NothingLost]_vars

\* a finished run in which one reference table was matched and copied and
\* another was recorded as unmatched
C12_Witness ==
    /\ pc = "done"
    /\ ~filter
    /\ Cardinality(DOMAIN tableMapping) = 1
    /\ Len(unmatched) = 1
    /\ \E i, j \in ProcessedTables : Matched(i) /\ Unmatched(j)

====
